---- MODULE Spec2Model ----
\* Model of src/handler.py: Item, Inventory, User, Sale, SalesHistory and the
\* Store facade, with the two JSON files the program writes and reads.
\*
\* A Python dict is a sequence of [key, value] entries with distinct keys, in
\* insertion order.  A raised exception is a record [exc, msg]; NoExc means the
\* call returned.  A file is <<>> when it does not exist and <<text>> when it
\* does, text being the sequence of JSON objects json.dump wrote; a number in
\* a JSON object is its decimal text.
EXTENDS Integers, Sequences, FiniteSets, TLC

VARIABLES
    role,        \* Store.user.role
    items,       \* Store.inventory.items
    sales,       \* Store.sales_history.sales
    inv_file,    \* inventory.json
    sales_file,  \* sales_history.json
    last         \* the last call made: its name, arguments and outcome

vars == <<role, items, sales, inv_file, sales_file, last>>

----------------------------------------------------------------------------
\* Bounds of the model

\* largest quantity an item is driven to
MaxQty == 1
\* largest number of sales recorded in one session
MaxSales == 2

ItemIds == {0, 1}
Catalog == {[name |-> "Widget", price |-> 10], [name |-> "Gadget", price |-> 100]}
Quantities == -1 .. MaxQty
Deltas == {-2, -1, 1}
Percents == {-1, 0, 100, 101}
RoleInputs == {"admin", "Admin", "customer", "CUSTOMER", "guest"}

----------------------------------------------------------------------------
\* Exceptions

NoExc == [exc |-> "none", msg |-> ""]
ValueError(m) == [exc |-> "ValueError", msg |-> m]
PermissionError(m) == [exc |-> "PermissionError", msg |-> m]

\* the names section 7 of the specification gives to the failures
InvalidArgument == ValueError("Discount percent must be between 0 and 100.")
AlreadyExists == ValueError("Item ID already exists.")
NotFound == ValueError("Item ID does not exist.")
InsufficientStock == ValueError("Insufficient quantity in stock.")
BadRole == ValueError("Role must be 'admin' or 'customer'.")
PermissionDenied(r) == r.exc = "PermissionError"

----------------------------------------------------------------------------
\* Python dict, as an insertion-ordered sequence of entries

EmptyDict == <<>>
DictKeys(d) == {d[i].key : i \in 1 .. Len(d)}
DictHas(d, k) == \E i \in 1 .. Len(d) : d[i].key = k
DictIndex(d, k) == CHOOSE i \in 1 .. Len(d) : d[i].key = k
DictGet(d, k) == d[DictIndex(d, k)].value
\* d[k] = v: a present key keeps its position, a new key goes last
DictSet(d, k, v) ==
    IF DictHas(d, k)
    THEN [d EXCEPT ![DictIndex(d, k)] = [key |-> k, value |-> v]]
    ELSE Append(d, [key |-> k, value |-> v])
DictValues(d) == [i \in 1 .. Len(d) |-> d[i].value]

----------------------------------------------------------------------------
\* class Item

Item(item_id, name, price, quantity) ==
    [item_id |-> item_id, name |-> name, price |-> price,
     quantity |-> quantity, discount |-> 0]

\* set_discount with the lower bound of the range check left out
set_discount_no_lower_bound(item, discount_percent) ==
    IF discount_percent <= 100
    THEN [exc |-> NoExc, item |-> [item EXCEPT !.discount = discount_percent]]
    ELSE [exc |-> InvalidArgument, item |-> item]

\* set_discount with the upper bound read from the item's price
set_discount_price_cap(item, discount_percent) ==
    IF 0 <= discount_percent /\ discount_percent <= item.price
    THEN [exc |-> NoExc, item |-> [item EXCEPT !.discount = discount_percent]]
    ELSE [exc |-> InvalidArgument, item |-> item]

set_discount(item, discount_percent) ==
    IF 0 <= discount_percent /\ discount_percent <= 100
    THEN [exc |-> NoExc, item |-> [item EXCEPT !.discount = discount_percent]]
    ELSE [exc |-> InvalidArgument, item |-> item]

----------------------------------------------------------------------------
\* class Inventory: each method maps the dict to [exc, items]

\* add_item without the membership test: the assignment overwrites
add_item_overwrite(d, item) ==
    [exc |-> NoExc, items |-> DictSet(d, item.item_id, item)]

add_item(d, item) ==
    IF DictHas(d, item.item_id)
    THEN [exc |-> AlreadyExists, items |-> d]
    ELSE [exc |-> NoExc, items |-> DictSet(d, item.item_id, item)]

update_quantity(d, item_id, quantity) ==
    IF ~DictHas(d, item_id)
    THEN [exc |-> NotFound, items |-> d]
    ELSE [exc |-> NoExc,
          items |-> [d EXCEPT ![DictIndex(d, item_id)].value.quantity = quantity]]

apply_discount_to_item(d, item_id, discount_percent) ==
    IF ~DictHas(d, item_id)
    THEN [exc |-> NotFound, items |-> d]
    ELSE LET i == DictIndex(d, item_id)
             r == set_discount(d[i].value, discount_percent)
         IN  [exc |-> r.exc, items |-> [d EXCEPT ![i].value = r.item]]

\* the for loop from its i-th iteration on: an exception leaves the loop with
\* the items before i already changed
RECURSIVE DiscountLoop(_, _, _)
DiscountLoop(d, i, discount_percent) ==
    IF i > Len(d)
    THEN [exc |-> NoExc, items |-> d]
    ELSE LET r == set_discount(d[i].value, discount_percent)
         IN  IF r.exc # NoExc
             THEN [exc |-> r.exc, items |-> d]
             ELSE DiscountLoop([d EXCEPT ![i].value = r.item], i + 1, discount_percent)

apply_discount_to_all(d, discount_percent) == DiscountLoop(d, 1, discount_percent)

\* adjust_quantity refusing a change that empties the stock (<= for <)
adjust_quantity_off_by_one(d, item_id, quantity_change) ==
    IF ~DictHas(d, item_id)
    THEN [exc |-> NotFound, items |-> d]
    ELSE LET i == DictIndex(d, item_id)
         IN  IF d[i].value.quantity + quantity_change <= 0
             THEN [exc |-> InsufficientStock, items |-> d]
             ELSE [exc |-> NoExc,
                   items |-> [d EXCEPT ![i].value.quantity = @ + quantity_change]]

adjust_quantity(d, item_id, quantity_change) ==
    IF ~DictHas(d, item_id)
    THEN [exc |-> NotFound, items |-> d]
    ELSE LET i == DictIndex(d, item_id)
         IN  IF d[i].value.quantity + quantity_change < 0
             THEN [exc |-> InsufficientStock, items |-> d]
             ELSE [exc |-> NoExc,
                   items |-> [d EXCEPT ![i].value.quantity = @ + quantity_change]]

----------------------------------------------------------------------------
\* json.dump / json.load of a number: its decimal text

Digits == <<"0", "1", "2", "3", "4", "5", "6", "7", "8", "9">>
DigitValue(c) == CHOOSE k \in 0 .. 9 : Digits[k + 1] = c

RECURSIVE NatToText(_)
NatToText(n) ==
    IF n < 10 THEN <<Digits[n + 1]>>
    ELSE Append(NatToText(n \div 10), Digits[(n % 10) + 1])

IntToText(n) == IF n < 0 THEN <<"-">> \o NatToText(0 - n) ELSE NatToText(n)

RECURSIVE TextToNat(_)
TextToNat(t) ==
    IF Len(t) = 0 THEN 0
    ELSE TextToNat(SubSeq(t, 1, Len(t) - 1)) * 10 + DigitValue(t[Len(t)])

TextToInt(t) == IF t[1] = "-" THEN 0 - TextToNat(Tail(t)) ELSE TextToNat(t)

\* one JSON object of the inventory file, written from / read into a dict
JsonDumpItem(data) ==
    [item_id |-> IntToText(data.item_id), name |-> data.name,
     price |-> IntToText(data.price), quantity |-> IntToText(data.quantity),
     discount |-> IntToText(data.discount)]

JsonLoadItem(obj) ==
    [item_id |-> TextToInt(obj.item_id), name |-> obj.name,
     price |-> TextToInt(obj.price), quantity |-> TextToInt(obj.quantity),
     discount |-> TextToInt(obj.discount)]

----------------------------------------------------------------------------
\* Item.to_dict / Item.from_dict, Inventory.save_inventory / load_inventory

to_dict(item) ==
    [item_id |-> item.item_id, name |-> item.name, price |-> item.price,
     quantity |-> item.quantity, discount |-> item.discount]

\* from_dict without the assignment of the stored discount
from_dict_default_discount(data) ==
    Item(data.item_id, data.name, data.price, data.quantity)

from_dict(data) ==
    LET item == Item(data.item_id, data.name, data.price, data.quantity)
    IN  [item EXCEPT !.discount =
            IF "discount" \in DOMAIN data THEN data.discount ELSE 0]

\* the file save_inventory writes
save_inventory(d) ==
    << [i \in 1 .. Len(d) |-> JsonDumpItem(to_dict(DictValues(d)[i]))] >>

\* the dict comprehension of load_inventory over the first n objects read
RECURSIVE ItemsFromData(_, _)
ItemsFromData(items_data, n) ==
    IF n = 0 THEN EmptyDict
    ELSE LET item_data == JsonLoadItem(items_data[n])
         IN  DictSet(ItemsFromData(items_data, n - 1),
                     item_data.item_id, from_dict(item_data))

\* self.items after load_inventory: replaced when the file exists
load_inventory(d, file) ==
    IF file # <<>> THEN ItemsFromData(file[1], Len(file[1])) ELSE d

----------------------------------------------------------------------------
\* class User

Lower(s) ==
    CASE s = "Admin" -> "admin"
      [] s = "CUSTOMER" -> "customer"
      [] OTHER -> s

User(role_input) ==
    LET r == Lower(role_input)
    IN  IF r \notin {"admin", "customer"}
        THEN [exc |-> BadRole, role |-> r]
        ELSE [exc |-> NoExc, role |-> r]

\* is_admin accepting every valid role
is_admin_any_role(user_role) == user_role \in {"admin", "customer"}

is_admin(user_role) == user_role = "admin"

----------------------------------------------------------------------------
\* class Sale; a timestamp is a tick of the clock, its ISO text the tick's
\* decimal text

Sale(sale_items, total_cost, customer_name, now) ==
    [items |-> sale_items, total_cost |-> total_cost, date |-> now,
     customer_name |-> customer_name]

JsonDumpLine(line) == [name |-> line.name, quantity |-> IntToText(line.quantity)]
JsonLoadLine(obj) == [name |-> obj.name, quantity |-> TextToInt(obj.quantity)]

isoformat(date) == IntToText(date)
fromisoformat(text) == TextToInt(text)

sale_to_dict(sale) ==
    [date |-> isoformat(sale.date), customer_name |-> sale.customer_name,
     items |-> sale.items, total_cost |-> sale.total_cost]

sale_from_dict(data, now) ==
    LET sale == Sale(data.items, data.total_cost, data.customer_name, now)
    IN  [sale EXCEPT !.date = fromisoformat(data.date)]

JsonDumpSale(data) ==
    [date |-> data.date, customer_name |-> data.customer_name,
     items |-> [i \in 1 .. Len(data.items) |-> JsonDumpLine(data.items[i])],
     total_cost |-> IntToText(data.total_cost)]

JsonLoadSale(obj) ==
    [date |-> obj.date, customer_name |-> obj.customer_name,
     items |-> [i \in 1 .. Len(obj.items) |-> JsonLoadLine(obj.items[i])],
     total_cost |-> TextToInt(obj.total_cost)]

----------------------------------------------------------------------------
\* class SalesHistory

\* record_sale inserting at the front of the list
record_sale_front(s, sale) == <<sale>> \o s

record_sale(s, sale) == Append(s, sale)

save_sales_history(s) ==
    << [i \in 1 .. Len(s) |-> JsonDumpSale(sale_to_dict(s[i]))] >>

load_sales_history(s, file, now) ==
    IF file # <<>>
    THEN [i \in 1 .. Len(file[1]) |-> sale_from_dict(JsonLoadSale(file[1][i]), now)]
    ELSE s

----------------------------------------------------------------------------
\* The cart handed to Store.checkout_cart.  No cart class is defined in the
\* source; section 4.4 of the specification gives its contract: checkout()
\* returns a total cost and cart_items lists (item, quantity) entries.

Widget == Item(1, "Widget", 10, 5)
Gadget == Item(0, "Gadget", 100, 1)
Carts ==
    { [cart_items |-> << [item |-> Widget, quantity |-> 2] >>, total |-> 20],
      [cart_items |-> << [item |-> Gadget, quantity |-> 1],
                         [item |-> Widget, quantity |-> 3] >>, total |-> 130] }
Customers == {"alice"}
Times == {1, 2}

CartCheckout(cart) == cart.total

----------------------------------------------------------------------------
\* class Store: each method maps (role, items, sales) to its outcome

\* the list comprehension reading the Item's stock quantity for the entry's
LineItemsStockQuantity(cart) ==
    [i \in 1 .. Len(cart.cart_items) |->
        [name |-> cart.cart_items[i].item.name,
         quantity |-> cart.cart_items[i].item.quantity]]

\* the list comprehension of checkout_cart
LineItems(cart) ==
    [i \in 1 .. Len(cart.cart_items) |->
        [name |-> cart.cart_items[i].item.name,
         quantity |-> cart.cart_items[i].quantity]]

add_item_to_inventory(user_role, d, item_id, name, price, quantity) ==
    IF ~is_admin(user_role)
    THEN [exc |-> PermissionError("Only admins can add items to the inventory."),
          items |-> d]
    ELSE add_item(d, Item(item_id, name, price, quantity))

update_inventory_quantity(user_role, d, item_id, quantity) ==
    IF ~is_admin(user_role)
    THEN [exc |-> PermissionError("Only admins can update item quantity."),
          items |-> d]
    ELSE update_quantity(d, item_id, quantity)

\* an argument that may be None is <<>> for None and <<v>> for the value v
None == <<>>
Truthy(opt) == opt # None /\ opt[1] # 0

apply_discount(user_role, d, item_id, discount_percent) ==
    IF ~is_admin(user_role)
    THEN [exc |-> PermissionError("Only admins can apply discounts."), items |-> d]
    ELSE IF Truthy(item_id)
         THEN apply_discount_to_item(d, item_id[1], discount_percent)
         ELSE apply_discount_to_all(d, discount_percent)

checkout_cart(s, cart, customer_name, now) ==
    LET total_cost == CartCheckout(cart)
        sale == Sale(LineItems(cart), total_cost, customer_name, now)
    IN  [sales |-> record_sale(s, sale), ret |-> total_cost]

----------------------------------------------------------------------------
\* State after construction: User(username, role) succeeded, Store(user) holds
\* an empty Inventory and an empty SalesHistory, no file has been written

\* id is None or <<item id>>; num is the quantity, change or percent passed (0
\* when the call takes none); ret is the value returned (0 for None)
Called(op, id, num, result, ret) ==
    [op |-> op, id |-> id, num |-> num, result |-> result, ret |-> ret]

Init ==
    \E role_input \in RoleInputs :
        /\ User(role_input).exc = NoExc
        /\ role = User(role_input).role
        /\ items = EmptyDict
        /\ sales = <<>>
        /\ inv_file = <<>>
        /\ sales_file = <<>>
        /\ last = Called("Store", None, 0, NoExc, 0)

----------------------------------------------------------------------------
\* Calls on Store.inventory

InventoryAddItem(item_id, c, quantity) ==
    LET r == add_item(items, Item(item_id, c.name, c.price, quantity))
    IN  /\ items' = r.items
        /\ last' = Called("Inventory.add_item", <<item_id>>, quantity, r.exc, 0)
        /\ UNCHANGED <<role, sales, inv_file, sales_file>>

InventoryUpdateQuantity(item_id, quantity) ==
    LET r == update_quantity(items, item_id, quantity)
    IN  /\ items' = r.items
        /\ last' = Called("Inventory.update_quantity", <<item_id>>, quantity, r.exc, 0)
        /\ UNCHANGED <<role, sales, inv_file, sales_file>>

InventoryApplyDiscountToItem(item_id, discount_percent) ==
    LET r == apply_discount_to_item(items, item_id, discount_percent)
    IN  /\ items' = r.items
        /\ last' = Called("Inventory.apply_discount_to_item", <<item_id>>, discount_percent, r.exc, 0)
        /\ UNCHANGED <<role, sales, inv_file, sales_file>>

InventoryApplyDiscountToAll(discount_percent) ==
    LET r == apply_discount_to_all(items, discount_percent)
    IN  /\ items' = r.items
        /\ last' = Called("Inventory.apply_discount_to_all", None, discount_percent, r.exc, 0)
        /\ UNCHANGED <<role, sales, inv_file, sales_file>>

\* the quantity is kept within the model's bound
InventoryAdjustQuantity(item_id, quantity_change) ==
    LET r == adjust_quantity(items, item_id, quantity_change)
    IN  /\ \A i \in 1 .. Len(r.items) : r.items[i].value.quantity <= MaxQty
        /\ items' = r.items
        /\ last' = Called("Inventory.adjust_quantity", <<item_id>>, quantity_change, r.exc, 0)
        /\ UNCHANGED <<role, sales, inv_file, sales_file>>

InventorySave ==
    /\ inv_file' = save_inventory(items)
    /\ last' = Called("Inventory.save_inventory", None, 0, NoExc, 0)
    /\ UNCHANGED <<role, items, sales, sales_file>>

InventoryLoad ==
    /\ items' = load_inventory(items, inv_file)
    /\ last' = Called("Inventory.load_inventory", None, 0, NoExc, 0)
    /\ UNCHANGED <<role, sales, inv_file, sales_file>>

----------------------------------------------------------------------------
\* Calls on Store.sales_history

SalesRecordSale(sale) ==
    /\ Len(sales) < MaxSales
    /\ sales' = record_sale(sales, sale)
    /\ last' = Called("SalesHistory.record_sale", None, 0, NoExc, 0)
    /\ UNCHANGED <<role, items, inv_file, sales_file>>

SalesSave ==
    /\ sales_file' = save_sales_history(sales)
    /\ last' = Called("SalesHistory.save_sales_history", None, 0, NoExc, 0)
    /\ UNCHANGED <<role, items, sales, inv_file>>

SalesLoad(now) ==
    /\ sales' = load_sales_history(sales, sales_file, now)
    /\ last' = Called("SalesHistory.load_sales_history", None, 0, NoExc, 0)
    /\ UNCHANGED <<role, items, inv_file, sales_file>>

----------------------------------------------------------------------------
\* Calls on the Store

StoreAddItem(item_id, c, quantity) ==
    LET r == add_item_to_inventory(role, items, item_id, c.name, c.price, quantity)
    IN  /\ items' = r.items
        /\ last' = Called("Store.add_item_to_inventory", <<item_id>>, quantity, r.exc, 0)
        /\ UNCHANGED <<role, sales, inv_file, sales_file>>

StoreUpdateQuantity(item_id, quantity) ==
    LET r == update_inventory_quantity(role, items, item_id, quantity)
    IN  /\ items' = r.items
        /\ last' = Called("Store.update_inventory_quantity", <<item_id>>, quantity, r.exc, 0)
        /\ UNCHANGED <<role, sales, inv_file, sales_file>>

StoreApplyDiscount(item_id, discount_percent) ==
    LET r == apply_discount(role, items, item_id, discount_percent)
    IN  /\ items' = r.items
        /\ last' = Called("Store.apply_discount", item_id, discount_percent, r.exc, 0)
        /\ UNCHANGED <<role, sales, inv_file, sales_file>>

StoreCheckoutCart(cart, customer_name, now) ==
    LET r == checkout_cart(sales, cart, customer_name, now)
    IN  /\ Len(sales) < MaxSales
        /\ sales' = r.sales
        /\ last' = Called("Store.checkout_cart", None, 0, NoExc, r.ret)
        /\ UNCHANGED <<role, items, inv_file, sales_file>>

StoreSaveData ==
    /\ inv_file' = save_inventory(items)
    /\ sales_file' = save_sales_history(sales)
    /\ last' = Called("Store.save_data", None, 0, NoExc, 0)
    /\ UNCHANGED <<role, items, sales>>

StoreLoadData(now) ==
    /\ items' = load_inventory(items, inv_file)
    /\ sales' = load_sales_history(sales, sales_file, now)
    /\ last' = Called("Store.load_data", None, 0, NoExc, 0)
    /\ UNCHANGED <<role, inv_file, sales_file>>

----------------------------------------------------------------------------
\* Spec: a session of inventory calls, on the Inventory and through the Store

OptIds == {None} \cup {<<i>> : i \in ItemIds}
SaleInputs ==
    {Sale(LineItems(cart), cart.total, c, t) : cart \in Carts, c \in Customers, t \in Times}

Next ==
    \/ \E i \in ItemIds, c \in Catalog, q \in Quantities : InventoryAddItem(i, c, q)
    \/ \E i \in ItemIds, q \in Quantities : InventoryUpdateQuantity(i, q)
    \/ \E i \in ItemIds, p \in Percents : InventoryApplyDiscountToItem(i, p)
    \/ \E p \in Percents : InventoryApplyDiscountToAll(p)
    \/ \E i \in ItemIds, n \in Deltas : InventoryAdjustQuantity(i, n)
    \/ \E i \in ItemIds, c \in Catalog, q \in Quantities : StoreAddItem(i, c, q)
    \/ \E i \in ItemIds, q \in Quantities : StoreUpdateQuantity(i, q)
    \/ \E i \in OptIds, p \in Percents : StoreApplyDiscount(i, p)

Spec == Init /\ [][Next]_vars

\* PersistSpec: inventory calls with the inventory file saved and loaded
PersistQuantities == {-1, 1}

NextPersist ==
    \/ \E i \in ItemIds, c \in Catalog, q \in PersistQuantities : InventoryAddItem(i, c, q)
    \/ \E i \in ItemIds, p \in Percents : InventoryApplyDiscountToItem(i, p)
    \/ \E p \in Percents : InventoryApplyDiscountToAll(p)
    \/ \E i \in OptIds, p \in Percents : StoreApplyDiscount(i, p)
    \/ InventorySave
    \/ InventoryLoad

PersistSpec == Init /\ [][NextPersist]_vars

\* SalesSpec: checkouts and recorded sales, with both files saved and loaded
NextSales ==
    \/ \E c \in Catalog : InventoryAddItem(1, c, 1)
    \/ \E sale \in SaleInputs : SalesRecordSale(sale)
    \/ \E cart \in Carts, c \in Customers, t \in Times : StoreCheckoutCart(cart, c, t)
    \/ SalesSave
    \/ \E t \in Times : SalesLoad(t)
    \/ StoreSaveData
    \/ \E t \in Times : StoreLoadData(t)

SalesSpec == Init /\ [][NextSales]_vars

----------------------------------------------------------------------------
\* Vocabulary of the properties

InRange(p) == 0 <= p /\ p <= 100
IsPrefix(s, t) == Len(s) <= Len(t) /\ SubSeq(t, 1, Len(s)) = s
\* a dict as the mapping it denotes, its insertion order forgotten
AsMapping(d) == {<<d[i].key, d[i].value>> : i \in 1 .. Len(d)}
GatedOps ==
    {"Store.add_item_to_inventory", "Store.update_inventory_quantity",
     "Store.apply_discount"}

----------------------------------------------------------------------------
\* C1: for a customer, every call of add_item_to_inventory,
\* update_inventory_quantity and apply_discount (one item or all) raises
\* PermissionError and leaves the inventory as it was.
C1_CustomerDenied ==
    [][(role = "customer" /\ last'.op \in GatedOps)
        => (PermissionDenied(last'.result) /\ items' = items)]_vars

\* a customer's bulk discount was refused on an inventory holding two items
C1_Witness ==
    /\ role = "customer"
    /\ last.op = "Store.apply_discount"
    /\ last.id = None
    /\ InRange(last.num)
    /\ PermissionDenied(last.result)
    /\ Len(items) = 2

\* C2: every item of every reachable inventory has quantity >= 0.
C2_QuantityNonNegative ==
    \A i \in 1 .. Len(items) : items[i].value.quantity >= 0

\* C3: every item of every reachable inventory has 0 <= discount <= 100, and
\* a discount call with a percent outside [0,100] changes no discount and,
\* where it reaches Item.set_discount, raises the InvalidArgument ValueError.
DiscountInRange == \A i \in 1 .. Len(items) : InRange(items[i].value.discount)

SetDiscountReached ==
    \/ /\ last'.op = "Inventory.apply_discount_to_item"
       /\ DictHas(items, last'.id[1])
    \/ /\ last'.op = "Inventory.apply_discount_to_all"
       /\ Len(items) > 0
    \/ /\ last'.op = "Store.apply_discount"
       /\ is_admin(role)
       /\ IF Truthy(last'.id) THEN DictHas(items, last'.id[1]) ELSE Len(items) > 0

DiscountOps ==
    {"Inventory.apply_discount_to_item", "Inventory.apply_discount_to_all",
     "Store.apply_discount"}

C3_DiscountBounded ==
    /\ []DiscountInRange
    /\ [][(last'.op \in DiscountOps /\ ~InRange(last'.num))
            => /\ items' = items
               /\ SetDiscountReached => last'.result = InvalidArgument]_vars

\* percent 101 was refused for an item that keeps its discount of 100, in an
\* inventory that was loaded from the file
C3_Witness ==
    /\ last.op = "Inventory.apply_discount_to_item"
    /\ last.num = 101
    /\ last.result = InvalidArgument
    /\ DictHas(items, last.id[1])
    /\ DictGet(items, last.id[1]).discount = 100
    /\ inv_file # <<>>
    /\ save_inventory(items) = inv_file

\* C4: add_item with an ID already present raises AlreadyExists and changes
\* nothing; with a new ID it inserts the item under that ID; every key equals
\* its item's item_id and no ID occurs twice.
KeysAreIds ==
    /\ \A i \in 1 .. Len(items) : items[i].key = items[i].value.item_id
    /\ \A i, j \in 1 .. Len(items) : items[i].key = items[j].key => i = j

C4_AddItem ==
    /\ []KeysAreIds
    /\ [][last'.op = "Inventory.add_item"
            => IF DictHas(items, last'.id[1])
               THEN last'.result = AlreadyExists /\ items' = items
               ELSE /\ last'.result = NoExc
                    /\ Len(items') = Len(items) + 1
                    /\ SubSeq(items', 1, Len(items)) = items
                    /\ items'[Len(items')].key = last'.id[1]
                    /\ items'[Len(items')].value.item_id = last'.id[1]
                    /\ items'[Len(items')].value.quantity = last'.num
                    /\ items'[Len(items')].value.discount = 0]_vars

\* a second add of ID 0 was refused; the stored item differs from the one
\* offered in its quantity
C4_Witness ==
    /\ last.op = "Inventory.add_item"
    /\ last.result = AlreadyExists
    /\ last.id = <<0>>
    /\ Len(items) = 2
    /\ DictGet(items, 0).quantity # last.num

\* C5: for a present ID, adjust_quantity raises InsufficientStock iff
\* quantity + change < 0, leaving the inventory as it was; otherwise the new
\* quantity is quantity + change and nothing else changes.
C5_AdjustQuantity ==
    [][(last'.op = "Inventory.adjust_quantity" /\ DictHas(items, last'.id[1]))
        => LET i == DictIndex(items, last'.id[1])
               q == items[i].value.quantity + last'.num
           IN  /\ last'.result = InsufficientStock <=> q < 0
               /\ last'.result \in {InsufficientStock, NoExc}
               /\ IF q < 0
                  THEN items' = items
                  ELSE items' = [items EXCEPT ![i].value.quantity = q]]_vars

\* a change of -1 took an item's stock from 1 to exactly 0
C5_Witness ==
    /\ last.op = "Inventory.adjust_quantity"
    /\ last.num = -1
    /\ last.result = NoExc
    /\ DictHas(items, last.id[1])
    /\ DictGet(items, last.id[1]).quantity = 0
    /\ Len(items) = 2

\* C6: saving an inventory and loading the file, into an empty or a populated
\* Inventory, gives the same IDs with the same five fields each; a load of an
\* existing file replaces the mapping by the file's.
PreviousMappings ==
    {EmptyDict,
     <<[key |-> 1, value |-> Widget]>>,
     <<[key |-> 0, value |-> Gadget], [key |-> 1, value |-> Widget]>>}
LoadOps == {"Inventory.load_inventory", "Store.load_data"}

C6_RoundTrip ==
    /\ [](\A d \in PreviousMappings :
            AsMapping(load_inventory(d, save_inventory(items))) = AsMapping(items))
    /\ [][(last'.op \in LoadOps /\ inv_file # <<>>)
            => save_inventory(items') = inv_file]_vars

\* a load gave back the one-item inventory saved in the file, whose item
\* carries a discount of 100 and a quantity of -1
C6_Witness ==
    /\ last.op = "Inventory.load_inventory"
    /\ Len(items) = 1
    /\ items[1].value.discount = 100
    /\ items[1].value.quantity = -1
    /\ save_inventory(items) = inv_file

RecordOps == {"SalesHistory.record_sale", "Store.checkout_cart"}
SalesLoadOps == {"SalesHistory.load_sales_history", "Store.load_data"}

C8_AppendOnly ==
    [][last'.op \notin SalesLoadOps
        => /\ IsPrefix(sales, sales')
           /\ last'.op \in RecordOps
                => Len(sales') = Len(sales) + 1 /\ last'.result = NoExc]_vars

\* record_sale appended a second sale that differs from the first
C8_Witness ==
    /\ last.op = "SalesHistory.record_sale"
    /\ Len(sales) = 2
    /\ sales[1] # sales[2]

\* C9: an admin's apply_discount(item_id, percent) with a present item_id and
\* 0 <= percent <= 100 sets that item's discount to percent and changes
\* nothing else.
C9_SingleDiscount ==
    [][(/\ last'.op = "Store.apply_discount"
        /\ is_admin(role)
        /\ last'.id # None
        /\ DictHas(items, last'.id[1])
        /\ InRange(last'.num))
        => items' = [items EXCEPT
                        ![DictIndex(items, last'.id[1])].value.discount = last'.num]]_vars

\* C10: apply_discount_to_all either succeeds with every discount equal to
\* percent or fails with every discount as before; it fails exactly when
\* percent is outside [0,100] and the inventory is not empty.
C10_AllOrNothing ==
    [][last'.op = "Inventory.apply_discount_to_all"
        => /\ last'.result # NoExc <=> (~InRange(last'.num) /\ Len(items) > 0)
           /\ IF last'.result # NoExc
              THEN items' = items
              ELSE /\ Len(items') = Len(items)
                   /\ \A i \in 1 .. Len(items) :
                        items'[i] = [items[i] EXCEPT !.value.discount = last'.num]]_vars

\* percent 101 was refused for two items that carry different discounts
C10_Witness ==
    /\ last.op = "Inventory.apply_discount_to_all"
    /\ last.num = 101
    /\ last.result = InvalidArgument
    /\ Len(items) = 2
    /\ items[1].value.discount # items[2].value.discount

====
